---- MODULE Spec2Model ----
(***************************************************************************)
(* CareTakerAI local inference pipeline.                                   *)
(*                                                                         *)
(*   backend/python/inference.py  one-shot variant: stdin -> stdout        *)
(*   backend/python/server.py     resident service: /health, /inference    *)
(*                                                                         *)
(* Text is modelled at token level.  A raw model output, a request body    *)
(* and the standard input are sequences over Alphabet:                     *)
(*   "{"  "}"  ","   the JSON punctuation the extraction looks for         *)
(*   "a"             the member  "action": "Rest"                          *)
(*   "e"             the member  "explanation": "Reason: low sleep."       *)
(*   "k"             the key prefix  "data":  (a value must follow)        *)
(*   "x"             any prose that is not JSON                            *)
(* A parsed JSON object is the sequence of its <<key, value>> pairs in     *)
(* insertion order (a Python dict).                                        *)
(***************************************************************************)
EXTENDS Integers, Sequences, FiniteSets, TLC

\* ---------------------------------------------------------------- bounds
MaxRawLen == 5      \* longest raw output of the one-shot variant
MaxSvcRawLen == 3   \* longest raw output of the service
MaxInLen == 2       \* longest standard input / request body
NumReq == 3         \* concurrent POST /inference requests
NumHealth == 1      \* concurrent GET /health requests

Alphabet == {"{", "}", ",", "a", "e", "k", "x"}

\* the raw outputs of the service are short; at their lengths "," and "k"
\* cannot occur in a parseable span and only repeat what "x" does
SvcAlphabet == {"{", "}", "a", "e", "x"}

StrsOver(A, n) == UNION {[1..k -> A] : k \in 0..n}
Strs(n) == StrsOver(Alphabet, n)

Requests == 1..NumReq
HealthReqs == 1..NumHealth

\* ------------------------------------------------------ python str methods
\* str.find(c): index (from 0) of the first occurrence, -1 when absent
Find(s, c) ==
    IF \E i \in 1..Len(s) : s[i] = c
    THEN (CHOOSE i \in 1..Len(s) : s[i] = c /\ \A j \in 1..(i-1) : s[j] # c) - 1
    ELSE -1

\* str.rfind(c): index (from 0) of the last occurrence, -1 when absent
RFind(s, c) ==
    IF \E i \in 1..Len(s) : s[i] = c
    THEN (CHOOSE i \in 1..Len(s) : s[i] = c /\ \A j \in (i+1)..Len(s) : s[j] # c) - 1
    ELSE -1

\* Slice that stops before the last "}" (end = rfind, not rfind + 1)
SliceExclusive(s, start, end) ==
    SubSeq(s, start + 1, (IF end > Len(s) THEN Len(s) ELSE end) - 1)

\* s[start:end] for 0 <= start, 0 <= end
Slice(s, start, end) == SubSeq(s, start + 1, IF end > Len(s) THEN Len(s) ELSE end)

\* ------------------------------------------------------------- json.loads
Ok(v, n) == [ok |-> TRUE, val |-> v, next |-> n, msg |-> ""]
Err(m) == [ok |-> FALSE, val |-> <<>>, next |-> 0, msg |-> m]

HasKey(d, key) == \E i \in 1..Len(d) : d[i][1] = key

\* dict[key] = v: a repeated key keeps its place and takes the last value
DictSet(d, key, v) ==
    IF HasKey(d, key)
    THEN [i \in 1..Len(d) |-> IF d[i][1] = key THEN <<key, v>> ELSE d[i]]
    ELSE Append(d, <<key, v>>)

RECURSIVE ParseObject(_, _)
RECURSIVE ParseMembers(_, _, _)
RECURSIVE AfterMember(_, _, _)

\* after a complete member at q-1: "}" closes, "," continues
AfterMember(s, q, acc) ==
    IF q > Len(s) THEN Err("Expecting ',' delimiter")
    ELSE IF s[q] = "}" THEN Ok(acc, q + 1)
    ELSE IF s[q] = "," THEN ParseMembers(s, q + 1, acc)
    ELSE Err("Expecting ',' delimiter")

\* a member is expected at p
ParseMembers(s, p, acc) ==
    IF p > Len(s) THEN Err("Expecting property name enclosed in double quotes")
    ELSE IF s[p] = "a" THEN AfterMember(s, p + 1, DictSet(acc, "action", "Rest"))
    ELSE IF s[p] = "e"
         THEN AfterMember(s, p + 1, DictSet(acc, "explanation", "Reason: low sleep."))
    ELSE IF s[p] = "k"
         THEN IF p + 1 <= Len(s) /\ s[p + 1] = "{"
              THEN LET r == ParseObject(s, p + 1)
                   IN  IF r.ok THEN AfterMember(s, r.next, DictSet(acc, "data", r.val))
                       ELSE r
              ELSE IF p + 1 <= Len(s) /\ s[p + 1] \in {"a", "e", "k"}
                   THEN Err("Expecting ',' delimiter")
                   ELSE Err("Expecting value")
    ELSE Err("Expecting property name enclosed in double quotes")

\* s[i] = "{"
ParseObject(s, i) ==
    IF i + 1 <= Len(s) /\ s[i + 1] = "}" THEN Ok(<<>>, i + 2)
    ELSE ParseMembers(s, i + 1, <<>>)

\* json.loads(s): one value, then nothing but the end of the text
JsonLoads(s) ==
    IF Len(s) = 0 \/ s[1] # "{" THEN Err("Expecting value")
    ELSE LET r == ParseObject(s, 1)
         IN  IF ~r.ok THEN r
             ELSE IF r.next <= Len(s) THEN Err("Extra data")
             ELSE r

\* ------------------------------------------------------------- json.dumps
RECURSIVE JsonDumps(_)
RECURSIVE DumpsMembers(_, _)

DumpsMember(m) ==
    IF m[1] = "action" THEN <<"a">>
    ELSE IF m[1] = "explanation" THEN <<"e">>
    ELSE <<"k">> \o JsonDumps(m[2])

DumpsMembers(d, i) ==
    IF i > Len(d) THEN <<>>
    ELSE (IF i > 1 THEN <<",">> ELSE <<>>) \o DumpsMember(d[i]) \o DumpsMembers(d, i + 1)

JsonDumps(d) == <<"{">> \o DumpsMembers(d, 1) \o <<"}">>

\* ------------------------------------------------------------ the prompt
SYSTEM_INSTRUCTION_ONESHOT == "You are Caretaker AI. You are NOT a human assistant."
SYSTEM_INSTRUCTION_SERVICE == "You are Caretaker AI. You are the Voice of the System."

BuildPrompt(instruction, ctx) ==
    <<instruction, "\n\nINPUT DATA:\n", JsonDumps(ctx), "\n\nDECISION (JSON):">>

\* --------------------------------------------------------------- verdicts
Verdict(status, action, explanation) ==
    << <<"systemStatus", status>>, <<"action", action>>, <<"explanation", explanation>> >>

NoJsonFoundOneShot ==
    Verdict("Monitoring.", "Review log.", "Reason: Output parsing error.")

ParseExceptionVerdict(m) ==
    Verdict("Error", "None", "Reason: Parsing exception " \o m)

InferenceExceptionVerdict(m) ==
    Verdict("Error", "None", "Reason: Inference exception " \o m)

NoJsonFoundService ==
    Verdict("Monitoring.", "Continue normal activities.", "Reason: System check complete.")

ServiceErrorVerdict(m) ==
    Verdict("Error. Monitoring active.", "None.", "Reason: " \o m)

\* messages of the exceptions raised outside json.loads
LoadMsgs == {"Failed to load model from file"}
GenMsgs == {"llama_decode returned -1"}
BadRequestMsg == "400 Bad Request: Failed to decode JSON object"

\* ------------------------------------------------------------- extraction
\* OneShotExtract with "end >= start" in place of "end > start"
OneShotExtractGE(raw) ==
    LET start == Find(raw, "{")
        end == RFind(raw, "}") + 1
    IN  IF start # -1 /\ end >= start
        THEN LET span == Slice(raw, start, end)
                 r == JsonLoads(span)
             IN  [out |-> IF r.ok THEN r.val ELSE ParseExceptionVerdict(r.msg),
                  loads |-> <<span>>]
        ELSE [out |-> NoJsonFoundOneShot, loads |-> <<>>]

\* OneShotExtract that fills in a missing "action" field
OneShotExtractDefaulting(raw) ==
    LET start == Find(raw, "{")
        end == RFind(raw, "}") + 1
    IN  IF start # -1 /\ end > start
        THEN LET span == Slice(raw, start, end)
                 r == JsonLoads(span)
             IN  [out |-> IF r.ok
                          THEN (IF HasKey(r.val, "action") THEN r.val
                                ELSE Append(r.val, <<"action", "None">>))
                          ELSE ParseExceptionVerdict(r.msg),
                  loads |-> <<span>>]
        ELSE [out |-> NoJsonFoundOneShot, loads |-> <<>>]

\* inference.py, the block under "Parse JSON from output"
OneShotExtract(raw) ==
    LET start == Find(raw, "{")
        end == RFind(raw, "}") + 1
    IN  IF start # -1 /\ end > start
        THEN LET span == Slice(raw, start, end)
                 r == JsonLoads(span)
             IN  [out |-> IF r.ok THEN r.val ELSE ParseExceptionVerdict(r.msg),
                  loads |-> <<span>>]
        ELSE [out |-> NoJsonFoundOneShot, loads |-> <<>>]

\* ServiceExtract without the "end > start" test
ServiceExtractNoOrder(raw) ==
    LET start == Find(raw, "{")
        end == RFind(raw, "}") + 1
    IN  IF start # -1
        THEN LET span == Slice(raw, start, end)
                 r == JsonLoads(span)
             IN  [status |-> IF r.ok THEN 200 ELSE 500,
                  body |-> IF r.ok THEN r.val ELSE ServiceErrorVerdict(r.msg),
                  loads |-> <<span>>]
        ELSE [status |-> 200, body |-> NoJsonFoundService, loads |-> <<>>]

\* server.py, the block under "Parse JSON from output"; a json.loads failure
\* is not caught here, it reaches the handler's only except clause
ServiceExtract(raw) ==
    LET start == Find(raw, "{")
        end == RFind(raw, "}") + 1
    IN  IF start # -1 /\ end > start
        THEN LET span == Slice(raw, start, end)
                 r == JsonLoads(span)
             IN  [status |-> IF r.ok THEN 200 ELSE 500,
                  body |-> IF r.ok THEN r.val ELSE ServiceErrorVerdict(r.msg),
                  loads |-> <<span>>]
        ELSE [status |-> 200, body |-> NoJsonFoundService, loads |-> <<>>]

\* ------------------------------------------------------------------ state
VARIABLES
    mode,         \* which program runs: "oneshot" (inference.py) or "service" (server.py)
    llm,          \* the module-level model handle: "None" or "model"
    load_calls,   \* number of Llama.from_pretrained calls so far
    \* inference.py main()
    os_pc,        \* position of main()
    input_str,    \* sys.stdin.read()
    context,      \* json.loads(input_str)
    full_prompt,
    raw_output,
    json_str,     \* <<>> or <<the text handed to json.loads>>
    gen_calls,    \* number of create_chat_completion calls of main()
    stdout,       \* the printed lines, each the dict given to json.dumps
    \* server.py
    svc_pc,       \* "loading", "serving" or "crashed"
    lock,         \* 0 when free, else the request holding it
    waiters,      \* the requests blocked in lock.acquire, oldest first
    pc,           \* position of each /inference handler
    req_prompt,
    req_raw,
    req_json_str,
    resp,         \* the value the handler returns: [status, body]
    hpc,          \* "idle" until GET /health is answered, then "done"
    hresp

osVars == <<os_pc, input_str, context, full_prompt, raw_output, json_str, gen_calls, stdout>>
reqVars == <<pc, req_prompt, req_raw, req_json_str, resp>>
healthVars == <<hpc, hresp>>
svcVars == <<svc_pc, lock, waiters, reqVars, healthVars>>
vars == <<mode, llm, load_calls, osVars, svcVars>>

NoResp == [status |-> 0, body |-> <<>>]

Init ==
    /\ mode \in {"oneshot", "service"}
    /\ llm = "None"
    /\ load_calls = 0
    /\ os_pc = "start"
    /\ input_str \in (IF mode = "oneshot" THEN Strs(MaxInLen) ELSE {<<>>})
    /\ context = <<>>
    /\ full_prompt = <<>>
    /\ raw_output = <<>>
    /\ json_str = <<>>
    /\ gen_calls = 0
    /\ stdout = <<>>
    /\ svc_pc = "loading"
    /\ lock = 0
    /\ waiters = <<>>
    /\ pc = [r \in Requests |-> "idle"]
    /\ req_prompt = [r \in Requests |-> <<>>]
    /\ req_raw = [r \in Requests |-> <<>>]
    /\ req_json_str = [r \in Requests |-> <<>>]
    /\ resp = [r \in Requests |-> NoResp]
    /\ hpc = [h \in HealthReqs |-> "idle"]
    /\ hresp = [h \in HealthReqs |-> NoResp]

\* ----------------------------------------------------- inference.py main()
\* OsFail that reports under the label of the inner handler
OsFailAsParse(m) ==
    /\ stdout' = Append(stdout, ParseExceptionVerdict(m))
    /\ os_pc' = "exited"

\* OsFail that swallows the exception without printing
OsFailSilent(m) ==
    /\ stdout' = stdout
    /\ os_pc' = "exited"

\* the outer "except Exception as e" of main(): print the error Verdict, return
OsFail(m) ==
    /\ stdout' = Append(stdout, InferenceExceptionVerdict(m))
    /\ os_pc' = "exited"

\* OsRead without the "if not input_str: return" guard
OsReadNoEmptyCheck ==
    /\ mode = "oneshot" /\ os_pc = "start"
    /\ os_pc' = "loads"
    /\ UNCHANGED <<mode, llm, load_calls, input_str, context, full_prompt, raw_output,
                   json_str, gen_calls, stdout, svcVars>>

\* input_str = sys.stdin.read(); if not input_str: return
OsRead ==
    /\ mode = "oneshot" /\ os_pc = "start"
    /\ os_pc' = IF input_str = <<>> THEN "exited" ELSE "loads"
    /\ UNCHANGED <<mode, llm, load_calls, input_str, context, full_prompt, raw_output,
                   json_str, gen_calls, stdout, svcVars>>

\* context = json.loads(input_str)
OsLoadsInput ==
    /\ mode = "oneshot" /\ os_pc = "loads"
    /\ LET r == JsonLoads(input_str)
       IN  IF r.ok
           THEN context' = r.val /\ os_pc' = "get_model" /\ UNCHANGED stdout
           ELSE OsFail(r.msg) /\ UNCHANGED context
    /\ UNCHANGED <<mode, llm, load_calls, input_str, full_prompt, raw_output,
                   json_str, gen_calls, svcVars>>

\* get_model that tries the load a second time when the first one fails
get_modelRetry ==
    /\ mode = "oneshot" /\ os_pc = "get_model"
    /\ IF llm = "None"
       THEN \/ /\ load_calls' = load_calls + 1
               /\ llm' = "model" /\ os_pc' = "prompt" /\ UNCHANGED stdout
            \/ /\ load_calls' = load_calls + 2
               /\ \/ llm' = "model" /\ os_pc' = "prompt" /\ UNCHANGED stdout
                  \/ \E m \in LoadMsgs : OsFail(m) /\ UNCHANGED llm
       ELSE os_pc' = "prompt" /\ UNCHANGED <<llm, load_calls, stdout>>
    /\ UNCHANGED <<mode, input_str, context, full_prompt, raw_output,
                   json_str, gen_calls, svcVars>>

\* model = get_model()
get_model ==
    /\ mode = "oneshot" /\ os_pc = "get_model"
    /\ IF llm = "None"
       THEN /\ load_calls' = load_calls + 1
            /\ \/ llm' = "model" /\ os_pc' = "prompt" /\ UNCHANGED stdout
               \/ \E m \in LoadMsgs : OsFail(m) /\ UNCHANGED llm
       ELSE os_pc' = "prompt" /\ UNCHANGED <<llm, load_calls, stdout>>
    /\ UNCHANGED <<mode, input_str, context, full_prompt, raw_output,
                   json_str, gen_calls, svcVars>>

\* user_input_json = json.dumps(context, indent=2); full_prompt = f"..."
OsPrompt ==
    /\ mode = "oneshot" /\ os_pc = "prompt"
    /\ full_prompt' = BuildPrompt(SYSTEM_INSTRUCTION_ONESHOT, context)
    /\ os_pc' = "generate"
    /\ UNCHANGED <<mode, llm, load_calls, input_str, context, raw_output,
                   json_str, gen_calls, stdout, svcVars>>

\* response = model.create_chat_completion(...); raw_output = response[...]
OsGenerate ==
    /\ mode = "oneshot" /\ os_pc = "generate"
    /\ gen_calls' = gen_calls + 1
    /\ \/ \E raw \in Strs(MaxRawLen) :
            raw_output' = raw /\ os_pc' = "extract" /\ UNCHANGED stdout
       \/ \E m \in GenMsgs : OsFail(m) /\ UNCHANGED raw_output
    /\ UNCHANGED <<mode, llm, load_calls, input_str, context, full_prompt,
                   json_str, svcVars>>

\* OsExtract that asks the model again when the output holds no JSON span
OsExtractRetry ==
    /\ mode = "oneshot" /\ os_pc = "extract"
    /\ LET x == OneShotExtract(raw_output)
       IN  IF x.loads = <<>>
           THEN os_pc' = "generate" /\ UNCHANGED <<json_str, stdout>>
           ELSE /\ json_str' = x.loads
                /\ stdout' = Append(stdout, x.out)
                /\ os_pc' = "exited"
    /\ UNCHANGED <<mode, llm, load_calls, input_str, context, full_prompt,
                   raw_output, gen_calls, svcVars>>

\* the inner try/except: slice, parse, print
OsExtract ==
    /\ mode = "oneshot" /\ os_pc = "extract"
    /\ LET x == OneShotExtract(raw_output)
       IN  /\ json_str' = x.loads
           /\ stdout' = Append(stdout, x.out)
    /\ os_pc' = "exited"
    /\ UNCHANGED <<mode, llm, load_calls, input_str, context, full_prompt,
                   raw_output, gen_calls, svcVars>>

NextOneShot ==
    OsRead \/ OsLoadsInput \/ get_model \/ OsPrompt \/ OsGenerate \/ OsExtract

\* ------------------------------------------------------------- server.py
\* LoadModel that goes on to serve() after a failed load
LoadModelLenient ==
    /\ mode = "service" /\ svc_pc = "loading"
    /\ load_calls' = load_calls + 1
    /\ \/ llm' = "model" /\ svc_pc' = "serving"
       \/ svc_pc' = "serving" /\ UNCHANGED llm
    /\ UNCHANGED <<mode, osVars, lock, waiters, reqVars, healthVars>>

\* module level: llm = Llama.from_pretrained(...); a failure ends the process
\* before serve() is reached
LoadModel ==
    /\ mode = "service" /\ svc_pc = "loading"
    /\ load_calls' = load_calls + 1
    /\ \/ llm' = "model" /\ svc_pc' = "serving"
       \/ svc_pc' = "crashed" /\ UNCHANGED llm
    /\ UNCHANGED <<mode, osVars, lock, waiters, reqVars, healthVars>>

\* Arrive without the lock: the handler body is entered at once
ArriveUnlocked(r) ==
    /\ mode = "service" /\ svc_pc = "serving" /\ pc[r] = "idle"
    /\ lock' = r
    /\ pc' = [pc EXCEPT ![r] = "prompting"]
    /\ UNCHANGED <<mode, llm, load_calls, osVars, svc_pc, waiters, req_prompt, req_raw,
                   req_json_str, resp, healthVars>>

\* "with lock:" reached by a new request: take the free lock, else block
Arrive(r) ==
    /\ mode = "service" /\ svc_pc = "serving" /\ pc[r] = "idle"
    /\ IF lock = 0
       THEN /\ lock' = r
            /\ pc' = [pc EXCEPT ![r] = "prompting"]
            /\ UNCHANGED waiters
       ELSE /\ pc' = [pc EXCEPT ![r] = "waiting"]
            /\ waiters' = Append(waiters, r)
            /\ UNCHANGED lock
    /\ UNCHANGED <<mode, llm, load_calls, osVars, svc_pc, req_prompt, req_raw,
                   req_json_str, resp, healthVars>>

\* Wake of a fair (first in, first out) lock
WakeFifo(r) ==
    /\ mode = "service" /\ pc[r] = "waiting" /\ lock = 0
    /\ r = Head(waiters)
    /\ lock' = r
    /\ pc' = [pc EXCEPT ![r] = "prompting"]
    /\ waiters' = Tail(waiters)
    /\ UNCHANGED <<mode, llm, load_calls, osVars, svc_pc, req_prompt, req_raw,
                   req_json_str, resp, healthVars>>

\* threading.Lock wakes any one of the blocked threads once the lock is free
Wake(r) ==
    /\ mode = "service" /\ pc[r] = "waiting" /\ lock = 0
    /\ lock' = r
    /\ pc' = [pc EXCEPT ![r] = "prompting"]
    /\ waiters' = SelectSeq(waiters, LAMBDA w : w # r)
    /\ UNCHANGED <<mode, llm, load_calls, osVars, svc_pc, req_prompt, req_raw,
                   req_json_str, resp, healthVars>>

\* "except Exception as e": build the 500 response
SvcFail(r, m) ==
    /\ resp' = [resp EXCEPT ![r] = [status |-> 500, body |-> ServiceErrorVerdict(m)]]
    /\ pc' = [pc EXCEPT ![r] = "returning"]

\* context = request.json; user_input_json = json.dumps(...); full_prompt = f"..."
Prompt(r) ==
    /\ mode = "service" /\ pc[r] = "prompting"
    /\ \E body \in Strs(MaxInLen) :
         LET c == JsonLoads(body)
         IN  IF c.ok
             THEN /\ req_prompt' = [req_prompt EXCEPT
                                      ![r] = BuildPrompt(SYSTEM_INSTRUCTION_SERVICE, c.val)]
                  /\ pc' = [pc EXCEPT ![r] = "generating"]
                  /\ UNCHANGED resp
             ELSE SvcFail(r, BadRequestMsg) /\ UNCHANGED req_prompt
    /\ UNCHANGED <<mode, llm, load_calls, osVars, svc_pc, lock, waiters, req_raw,
                   req_json_str, healthVars>>

\* Generate that gives the lock up once the model has answered
GenerateUnlocked(r) ==
    /\ mode = "service" /\ pc[r] = "generating"
    /\ req_prompt' = [req_prompt EXCEPT ![r] = <<>>]
    /\ lock' = 0
    /\ \/ \E raw \in StrsOver(SvcAlphabet, MaxSvcRawLen) :
            /\ req_raw' = [req_raw EXCEPT ![r] = raw]
            /\ pc' = [pc EXCEPT ![r] = "extracting"]
            /\ UNCHANGED resp
       \/ \E m \in GenMsgs : SvcFail(r, m) /\ UNCHANGED req_raw
    /\ UNCHANGED <<mode, llm, load_calls, osVars, svc_pc, waiters,
                   req_json_str, healthVars>>

\* response = llm.create_chat_completion(...); raw_output = response[...]
\* (the prompt is the argument of the call and is not read after it)
Generate(r) ==
    /\ mode = "service" /\ pc[r] = "generating"
    /\ req_prompt' = [req_prompt EXCEPT ![r] = <<>>]
    /\ \/ \E raw \in StrsOver(SvcAlphabet, MaxSvcRawLen) :
            /\ req_raw' = [req_raw EXCEPT ![r] = raw]
            /\ pc' = [pc EXCEPT ![r] = "extracting"]
            /\ UNCHANGED resp
       \/ \E m \in GenMsgs : SvcFail(r, m) /\ UNCHANGED req_raw
    /\ UNCHANGED <<mode, llm, load_calls, osVars, svc_pc, lock, waiters,
                   req_json_str, healthVars>>

\* find / rfind / json.loads / jsonify
Extract(r) ==
    /\ mode = "service" /\ pc[r] = "extracting"
    /\ LET x == ServiceExtract(req_raw[r])
       IN  /\ req_json_str' = [req_json_str EXCEPT ![r] = x.loads]
           /\ resp' = [resp EXCEPT ![r] = [status |-> x.status, body |-> x.body]]
    /\ pc' = [pc EXCEPT ![r] = "returning"]
    /\ UNCHANGED <<mode, llm, load_calls, osVars, svc_pc, lock, waiters, req_prompt,
                   req_raw, healthVars>>

\* Release that returns the 500 of the except clause with the lock still held
ReleaseKeepsLockOnError(r) ==
    /\ mode = "service" /\ pc[r] = "returning"
    /\ lock' = IF resp[r].status = 500 THEN lock ELSE 0
    /\ pc' = [pc EXCEPT ![r] = "done"]
    /\ req_raw' = [req_raw EXCEPT ![r] = <<>>]
    /\ req_json_str' = [req_json_str EXCEPT ![r] = <<>>]
    /\ resp' = [resp EXCEPT ![r] = NoResp]
    /\ UNCHANGED <<mode, llm, load_calls, osVars, svc_pc, waiters, req_prompt,
                   healthVars>>

\* the return leaves the "with lock:" block; the response goes to the client
\* and the handler's locals are gone
Release(r) ==
    /\ mode = "service" /\ pc[r] = "returning"
    /\ lock' = 0
    /\ pc' = [pc EXCEPT ![r] = "done"]
    /\ req_raw' = [req_raw EXCEPT ![r] = <<>>]
    /\ req_json_str' = [req_json_str EXCEPT ![r] = <<>>]
    /\ resp' = [resp EXCEPT ![r] = NoResp]
    /\ UNCHANGED <<mode, llm, load_calls, osVars, svc_pc, waiters, req_prompt,
                   healthVars>>

\* health that takes the inference lock for its body
healthLocked(h) ==
    /\ mode = "service" /\ svc_pc = "serving" /\ hpc[h] = "idle" /\ lock = 0
    /\ hresp' = [hresp EXCEPT ![h] =
                   [status |-> 200,
                    body |-> << <<"status", "ok">>, <<"provider", "local-mistral">> >>]]
    /\ hpc' = [hpc EXCEPT ![h] = "done"]
    /\ UNCHANGED <<mode, llm, load_calls, osVars, svc_pc, lock, waiters, reqVars>>

\* GET /health: return jsonify({"status": "ok", "provider": "local-mistral"})
health(h) ==
    /\ mode = "service" /\ svc_pc = "serving" /\ hpc[h] = "idle"
    /\ hresp' = [hresp EXCEPT ![h] =
                   [status |-> 200,
                    body |-> << <<"status", "ok">>, <<"provider", "local-mistral">> >>]]
    /\ hpc' = [hpc EXCEPT ![h] = "done"]
    /\ UNCHANGED <<mode, llm, load_calls, osVars, svc_pc, lock, waiters, reqVars>>

\* start-up and the /inference handlers
NextInference ==
    \/ LoadModel
    \/ \E r \in Requests :
         Arrive(r) \/ Wake(r) \/ Prompt(r) \/ Generate(r) \/ Extract(r) \/ Release(r)

NextService ==
    \/ NextInference
    \/ \E h \in HealthReqs : health(h)

Next == NextOneShot \/ NextService

Spec == Init /\ [][Next]_vars

\* what the handler threads of the service do once a request has arrived
HandlerStep ==
    \E r \in Requests : Wake(r) \/ Prompt(r) \/ Generate(r) \/ Extract(r) \/ Release(r)

\* the state once server.py has been started, before the model is loaded
InitService == Init /\ mode = "service"

\* start-up and the /inference handlers with their scheduling: a running
\* handler thread keeps running, every create_chat_completion call returns or
\* raises, and a free lock with blocked threads is taken by one of them.  The
\* lock lets at most one handler run, so this is weak fairness of the
\* handlers' joint step.  (health() shares no state with them.)
FairSpec ==
    /\ InitService
    /\ [][NextInference]_vars
    /\ WF_vars(HandlerStep)

TypeOK ==
    /\ mode \in {"oneshot", "service"}
    /\ llm \in {"None", "model"}
    /\ lock \in {0} \cup Requests

\* ====================================================================
\* Properties
\* ====================================================================
\* terms of the statements, defined on the text itself
HasOpen(raw) == \E i \in 1..Len(raw) : raw[i] = "{"
HasClose(raw) == \E i \in 1..Len(raw) : raw[i] = "}"
FirstOpen(raw) == CHOOSE i \in 1..Len(raw) : raw[i] = "{" /\ \A j \in 1..Len(raw) : raw[j] = "{" => i <= j
LastClose(raw) == CHOOSE i \in 1..Len(raw) : raw[i] = "}" /\ \A j \in 1..Len(raw) : raw[j] = "}" => j <= i
HasSpan(raw) == HasOpen(raw) /\ HasClose(raw) /\ FirstOpen(raw) < LastClose(raw)
OuterSpan(raw) == SubSeq(raw, FirstOpen(raw), LastClose(raw))
Truncated(raw) == HasOpen(raw) /\ ~HasClose(raw)

Field(v, key) == v[CHOOSE i \in 1..Len(v) : v[i][1] = key][2]
StartsWith(str, prefix) == Len(str) >= Len(prefix) /\ SubSeq(str, 1, Len(prefix)) = prefix
IsJsonObject(v) == \A i \in 1..Len(v) : Len(v[i]) = 2
IsParseException(v) ==
    /\ HasKey(v, "systemStatus") /\ Field(v, "systemStatus") = "Error"
    /\ HasKey(v, "action") /\ Field(v, "action") = "None"
    /\ HasKey(v, "explanation")
    /\ StartsWith(Field(v, "explanation"), "Reason: Parsing exception")

InCritical(r) == pc[r] \in {"prompting", "generating", "extracting", "returning"}

\* C1: at most one /inference request is inside llm.create_chat_completion
\* at any instant.
C1_SingleFlight ==
    \A r1, r2 \in Requests :
        (pc[r1] = "generating" /\ pc[r2] = "generating") => r1 = r2

\* one request generates while two others have arrived and are blocked
C1_Witness ==
    /\ \E r \in Requests : pc[r] = "generating"
    /\ Len(waiters) >= 2

\* C2: a request with a valid JSON context never raises to the caller and
\* ends with a response that is a JSON object, on every internal path.
C2_AlwaysJsonObject ==
    /\ os_pc \in {"start", "loads", "get_model", "prompt", "generate", "extract", "exited"}
    /\ (os_pc = "exited" /\ JsonLoads(input_str).ok) =>
           (Len(stdout) = 1 /\ IsJsonObject(stdout[1]))
    /\ \A r \in Requests :
         /\ pc[r] \in {"idle", "waiting", "prompting", "generating", "extracting",
                       "returning", "done"}
         /\ pc[r] = "returning" =>
               (resp[r].status \in {200, 500} /\ IsJsonObject(resp[r].body))

\* the one-shot run whose generation raised still printed one object
C2_Witness ==
    /\ os_pc = "exited" /\ JsonLoads(input_str).ok /\ gen_calls = 1
    /\ Len(stdout) = 1
    /\ \E m \in GenMsgs : stdout[1] = InferenceExceptionVerdict(m)

\* C3: GET /health never acquires or waits on the inference lock: a health
\* request can complete in every state of the serving process, also while
\* the lock is held, and
\* completing answers 200 {status: ok, provider: local-mistral} and leaves
\* the lock and its waiters as they were.
C3_HealthIgnoresLock ==
    /\ [](\A h \in HealthReqs :
            (svc_pc = "serving" /\ hpc[h] = "idle") => ENABLED health(h))
    /\ [][\A h \in HealthReqs :
            (hpc[h] = "idle" /\ hpc'[h] = "done") =>
                /\ lock' = lock /\ waiters' = waiters
                /\ hresp'[h].status = 200
                /\ hresp'[h].body = << <<"status", "ok">>, <<"provider", "local-mistral">> >>
         ]_vars

\* health answered while a request is generating, others are queued and the
\* lock was never released
C3_Witness ==
    /\ \E h \in HealthReqs : hpc[h] = "done" /\ hresp[h].status = 200
    /\ \E r \in Requests : pc[r] = "generating" /\ lock = r
    /\ waiters # <<>>
    /\ \A r \in Requests : pc[r] # "done"

\* C4: in both variants, when generation succeeds and the span from the first
\* "{" to the last "}" of the raw output is not parseable JSON, the response
\* is the ParseException Verdict (status "Error", action "None", explanation
\* beginning "Reason: Parsing exception").
C4_UnparseableSpanGivesParseException ==
    [][/\ (os_pc = "extract" /\ os_pc' = "exited"
             /\ HasSpan(raw_output) /\ ~JsonLoads(OuterSpan(raw_output)).ok) =>
                 (Len(stdout') = 1 /\ IsParseException(stdout'[1]))
       /\ \A r \in Requests :
            (pc[r] = "extracting" /\ pc'[r] = "returning"
               /\ HasSpan(req_raw[r]) /\ ~JsonLoads(OuterSpan(req_raw[r])).ok) =>
                 IsParseException(resp'[r].body)
      ]_vars

\* C5: a raw output truncated mid-JSON (an opening "{" and no "}" at all)
\* yields an explanation starting with "Reason: Parsing exception".
C5_TruncatedGivesParseException ==
    [][/\ (os_pc = "extract" /\ os_pc' = "exited" /\ Truncated(raw_output)) =>
             (Len(stdout') = 1 /\ HasKey(stdout'[1], "explanation")
                /\ StartsWith(Field(stdout'[1], "explanation"), "Reason: Parsing exception"))
       /\ \A r \in Requests :
            (pc[r] = "extracting" /\ pc'[r] = "returning" /\ Truncated(req_raw[r])) =>
                 (HasKey(resp'[r].body, "explanation")
                    /\ StartsWith(Field(resp'[r].body, "explanation"),
                                  "Reason: Parsing exception"))
      ]_vars

\* C5 as amended: a raw output truncated mid-JSON (an opening "{" and no "}")
\* yields the NoJsonFound fallback Verdict of the variant (with status 200 in
\* the service), and json.loads is not called on it.
C5_TruncatedGivesNoJsonFound ==
    [][/\ (os_pc = "extract" /\ os_pc' = "exited" /\ Truncated(raw_output)) =>
             (stdout' = <<NoJsonFoundOneShot>> /\ json_str' = <<>>)
       /\ \A r \in Requests :
            (pc[r] = "extracting" /\ pc'[r] = "returning" /\ Truncated(req_raw[r])) =>
                 (resp'[r] = [status |-> 200, body |-> NoJsonFoundService]
                    /\ req_json_str'[r] = <<>>)
      ]_vars

\* the one-shot run on the truncated output  { "action": "Rest" ,
C5_Witness ==
    /\ os_pc = "exited"
    /\ raw_output = <<"{", "a", ",">>
    /\ stdout = <<NoJsonFoundOneShot>>

\* C6: a raw output without "{", or without "}", or whose last "}" is before
\* its first "{", yields the fixed NoJsonFound Verdict whatever the rest of
\* the text and the context: the exact one-shot Verdict, or in the service the
\* fixed Verdict with systemStatus "Monitoring." and status 200; json.loads is
\* never called on such output.
NoBraceSpan(raw) ==
    \/ ~HasOpen(raw)
    \/ ~HasClose(raw)
    \/ LastClose(raw) < FirstOpen(raw)

C6_NoSpanGivesNoJsonFound ==
    [][/\ (os_pc = "extract" /\ os_pc' = "exited" /\ NoBraceSpan(raw_output)) =>
             /\ stdout' = << Verdict("Monitoring.", "Review log.",
                                     "Reason: Output parsing error.") >>
             /\ json_str' = <<>>
       /\ \A r \in Requests :
            (pc[r] = "extracting" /\ pc'[r] = "returning" /\ NoBraceSpan(req_raw[r])) =>
             /\ resp'[r].status = 200
             /\ resp'[r].body = NoJsonFoundService
             /\ Field(resp'[r].body, "systemStatus") = "Monitoring."
             /\ req_json_str'[r] = <<>>
      ]_vars

\* a service request whose raw output has its last "}" before its first "{"
C6_Witness ==
    \E r \in Requests :
        /\ pc[r] = "returning"
        /\ req_raw[r] = <<"}", "x", "{">>
        /\ resp[r].status = 200

\* C7: when the span from the first "{" to the last "}" parses, the response
\* is that parsed object exactly (nothing added, removed or defaulted, so an
\* object without "action" is returned as is); the service answers 200.
C7_ParsedObjectReturnedAsIs ==
    [][/\ (os_pc = "extract" /\ os_pc' = "exited"
             /\ HasSpan(raw_output) /\ JsonLoads(OuterSpan(raw_output)).ok) =>
                 stdout' = << JsonLoads(OuterSpan(raw_output)).val >>
       /\ \A r \in Requests :
            (pc[r] = "extracting" /\ pc'[r] = "returning"
               /\ HasSpan(req_raw[r]) /\ JsonLoads(OuterSpan(req_raw[r])).ok) =>
                 resp'[r] = [status |-> 200, body |-> JsonLoads(OuterSpan(req_raw[r])).val]
      ]_vars

\* the one-shot run printed an object that carries only "explanation",
\* taken out of surrounding prose
C7_Witness ==
    /\ os_pc = "exited"
    /\ raw_output = <<"x", "{", "e", "}", "x">>
    /\ stdout = << << <<"explanation", "Reason: low sleep.">> >> >>

\* C8: in the service, a failure of prompt construction or of generate is
\* answered 500 with the error-shaped Verdict, and a pipeline that completes
\* without such a failure is answered 200.
C8_StatusByOutcome ==
    [][\A r \in Requests :
         /\ (pc[r] \in {"prompting", "generating"} /\ pc'[r] = "returning") =>
               /\ resp'[r].status = 500
               /\ \E m \in GenMsgs \cup {BadRequestMsg} :
                    resp'[r].body = Verdict("Error. Monitoring active.", "None.",
                                            "Reason: " \o m)
         /\ (pc[r] = "extracting" /\ pc'[r] = "returning") => resp'[r].status = 200
      ]_vars

\* C9: in the service a 500 is reserved for failures of prompt construction
\* or generation: a request whose generation returned is never answered 500.
C9_500OnlyForInferenceFailure ==
    [][\A r \in Requests :
         (pc[r] # "returning" /\ pc'[r] = "returning" /\ resp'[r].status = 500) =>
             pc[r] \in {"prompting", "generating"}
      ]_vars

\* C10: requests enter the critical section in the order in which they began
\* waiting for the lock: whoever takes the lock, no request blocked earlier
\* is still waiting.
C10_ArrivalOrder ==
    [][\A r \in Requests :
         (pc[r] \in {"idle", "waiting"} /\ pc'[r] = "prompting") =>
             (waiters = <<>> \/ Head(waiters) = r)
      ]_vars

\* C10 as amended: the lock fixes the order of service, arrival does not:
\* whenever the lock is free, every request blocked on it, not only the one
\* blocked longest, can be the next to enter its critical section.
C10_AnyWaiterMayEnter ==
    lock = 0 => \A i \in 1..Len(waiters) : ENABLED Wake(waiters[i])

\* the lock is free with two requests blocked on it
C10_Witness ==
    lock = 0 /\ Len(waiters) >= 2

\* C11: a one-shot run prints exactly one JSON line when standard input is
\* not empty (never none, never two) and prints nothing when it is empty; on
\* empty input the model is neither loaded nor asked to generate.
C11_OneLineOrNothing ==
    /\ Len(stdout) <= 1
    /\ os_pc # "exited" => stdout = <<>>
    /\ os_pc = "exited" =>
         IF input_str = <<>>
         THEN stdout = <<>> /\ llm = "None" /\ load_calls = 0 /\ gen_calls = 0
         ELSE Len(stdout) = 1 /\ IsJsonObject(stdout[1])

\* the run on empty standard input has ended without output
C11_Witness ==
    mode = "oneshot" /\ os_pc = "exited" /\ input_str = <<>> /\ stdout = <<>>

\* C12: the service accepts and handles requests (/inference and /health)
\* only after the model load has completed successfully, and a failed load
\* leaves the process out of the serving state for good.
C12_ServeOnlyAfterLoad ==
    /\ [](/\ ((\E r \in Requests : pc[r] # "idle") \/ (\E h \in HealthReqs : hpc[h] # "idle"))
              => (svc_pc = "serving" /\ llm = "model")
          /\ svc_pc = "serving" => (llm = "model" /\ load_calls = 1)
          /\ svc_pc = "crashed" => llm = "None")
    /\ [][svc_pc = "crashed" => svc_pc' = "crashed"]_vars

\* the load failed: the process is down and nothing was handled
C12_Witness ==
    /\ svc_pc = "crashed" /\ load_calls = 1 /\ llm = "None"
    /\ \A r \in Requests : pc[r] = "idle"

\* C13: the model is loaded at most once per process and a failed load is not
\* retried: a load happens only while the handle is unset (in get_model, or
\* at the start-up of the service), and once set the handle is never loaded
\* again or reassigned by any later step.
C13_LoadOnce ==
    /\ [](load_calls <= 1)
    /\ [][/\ load_calls' # load_calls =>
               (llm = "None" /\ load_calls' = load_calls + 1
                  /\ (os_pc = "get_model" \/ svc_pc = "loading"))
          /\ llm = "model" => (llm' = "model" /\ load_calls' = load_calls)
          /\ llm' # llm => load_calls' # load_calls
         ]_vars

\* the service has served all its requests on the handle of its one load
C13_Witness ==
    /\ mode = "service" /\ llm = "model" /\ load_calls = 1
    /\ \A r \in Requests : pc[r] = "done"

\* C14: a service request holds the inference lock in every state from the
\* start of prompt building through the end of extraction, and does not
\* give it up between these phases: the lock leaves a request only when the
\* request returns.
C14_LockHeldThroughPipeline ==
    /\ [](\A r \in Requests :
            pc[r] \in {"prompting", "generating", "extracting"} => lock = r)
    /\ [][\A r \in Requests :
            (lock = r /\ lock' # r) => (pc[r] = "returning" /\ pc'[r] = "done")
         ]_vars

\* a request is extracting under the lock while another one is blocked
C14_Witness ==
    \E r \in Requests : pc[r] = "extracting" /\ lock = r /\ waiters # <<>>

\* C15: a request moves through its phases only in the order received,
\* prompting, generating, extracting, terminal outcome: generate is called at
\* most once per request, extraction follows only a generation that
\* returned, a failure in prompting skips generation, and a request that has
\* its outcome takes no further step.
SvcPhaseStep(from, to) ==
    \/ from = "idle" /\ to \in {"waiting", "prompting"}
    \/ from = "waiting" /\ to = "prompting"
    \/ from = "prompting" /\ to \in {"generating", "returning"}
    \/ from = "generating" /\ to \in {"extracting", "returning"}
    \/ from = "extracting" /\ to = "returning"
    \/ from = "returning" /\ to = "done"

OsPhaseStep(from, to) ==
    \/ from = "start" /\ to \in {"loads", "exited"}
    \/ from = "loads" /\ to \in {"get_model", "exited"}
    \/ from = "get_model" /\ to \in {"prompt", "exited"}
    \/ from = "prompt" /\ to = "generate"
    \/ from = "generate" /\ to \in {"extract", "exited"}
    \/ from = "extract" /\ to = "exited"

C15_PhaseOrder ==
    /\ [](gen_calls <= 1)
    /\ [][/\ \A r \in Requests :
               /\ pc'[r] # pc[r] => SvcPhaseStep(pc[r], pc'[r])
               /\ (pc[r] = "returning" /\ pc'[r] = "returning") => resp'[r] = resp[r]
               /\ req_raw'[r] # req_raw[r] =>
                     \/ pc[r] = "generating" /\ pc'[r] = "extracting"
                     \/ pc[r] = "returning" /\ pc'[r] = "done"
          /\ os_pc' # os_pc => OsPhaseStep(os_pc, os_pc')
          /\ gen_calls' # gen_calls => (os_pc = "generate" /\ gen_calls' = gen_calls + 1)
          /\ os_pc = "exited" => UNCHANGED osVars
         ]_vars

\* a service request failed in prompting and has its 500 without a generation
C15_Witness ==
    \E r \in Requests :
        /\ pc[r] = "returning"
        /\ resp[r] = [status |-> 500, body |-> ServiceErrorVerdict(BadRequestMsg)]
        /\ req_raw[r] = <<>>

\* C16: in the one-shot variant the failure kinds are told apart by the phase
\* that failed: a failure while parsing the input, loading the model,
\* building the prompt or generating yields {systemStatus "Error", action
\* "None", explanation beginning "Reason: Inference exception"} and never a
\* "Parsing exception" Verdict; a failure while extracting from a returned
\* raw output yields an explanation beginning "Reason: Parsing exception" and
\* never an "Inference exception" Verdict.
IsInferenceException(v) ==
    /\ HasKey(v, "systemStatus") /\ Field(v, "systemStatus") = "Error"
    /\ HasKey(v, "action") /\ Field(v, "action") = "None"
    /\ HasKey(v, "explanation")
    /\ StartsWith(Field(v, "explanation"), "Reason: Inference exception")

C16_FailureKindByPhase ==
    [][/\ (os_pc \in {"loads", "get_model", "prompt", "generate"} /\ os_pc' = "exited") =>
             /\ Len(stdout') = 1
             /\ IsInferenceException(stdout'[1])
             /\ ~StartsWith(Field(stdout'[1], "explanation"), "Reason: Parsing exception")
       /\ (os_pc = "extract" /\ os_pc' = "exited"
             /\ HasSpan(raw_output) /\ ~JsonLoads(OuterSpan(raw_output)).ok) =>
             /\ Len(stdout') = 1
             /\ IsParseException(stdout'[1])
             /\ ~StartsWith(Field(stdout'[1], "explanation"), "Reason: Inference exception")
      ]_vars

\* the run whose model load failed printed the Inference exception Verdict
C16_Witness ==
    /\ os_pc = "exited" /\ llm = "None" /\ load_calls = 1
    /\ \E m \in LoadMsgs : stdout = <<InferenceExceptionVerdict(m)>>

\* C17: the text handed to json.loads is exactly the raw output from its first
\* "{" through its last "}" inclusive, with no brace-balance check; so a raw
\* output made of a well-formed object with an extra "{" before it or an
\* extra "}" after it, or of two objects, is not recovered as that object
\* and ends in the parse-failure path.
ExtraBraceShape(raw) ==
    LET n == Len(raw)
    IN  \/ n >= 2 /\ raw[1] = "{" /\ JsonLoads(SubSeq(raw, 2, n)).ok
        \/ n >= 2 /\ raw[n] = "}" /\ JsonLoads(SubSeq(raw, 1, n - 1)).ok
        \/ \E i \in 1..(n - 1) :
             JsonLoads(SubSeq(raw, 1, i)).ok /\ JsonLoads(SubSeq(raw, i + 1, n)).ok

C17_GreedyOuterSpan ==
    [][/\ (os_pc = "extract" /\ os_pc' = "exited") =>
             /\ HasSpan(raw_output) => json_str' = <<OuterSpan(raw_output)>>
             /\ ExtraBraceShape(raw_output) =>
                   /\ json_str' = <<OuterSpan(raw_output)>>
                   /\ ~JsonLoads(OuterSpan(raw_output)).ok
                   /\ IsParseException(stdout'[1])
       /\ \A r \in Requests : (pc[r] = "extracting" /\ pc'[r] = "returning") =>
             /\ HasSpan(req_raw[r]) => req_json_str'[r] = <<OuterSpan(req_raw[r])>>
             /\ ExtraBraceShape(req_raw[r]) =>
                   /\ req_json_str'[r] = <<OuterSpan(req_raw[r])>>
                   /\ ~JsonLoads(OuterSpan(req_raw[r])).ok
                   /\ resp'[r].status # 200
                   /\ \A i \in 1..Len(req_raw[r]) :
                        JsonLoads(SubSeq(req_raw[r], i, Len(req_raw[r]))).ok =>
                            resp'[r].body # JsonLoads(SubSeq(req_raw[r], i, Len(req_raw[r]))).val
      ]_vars

\* the one-shot run on two objects in a row,  {} { "action": "Rest" }
C17_Witness ==
    /\ os_pc = "exited"
    /\ raw_output = <<"{", "}", "{", "a", "}">>
    /\ json_str = <<raw_output>>
    /\ IsParseException(stdout[1])

\* C18: the inference lock is released on every exit path of a request (the
\* parsed Verdict, the NoJsonFound fallback and the 500 of the except clause),
\* whenever no request is in its critical section the lock is free, and,
\* given that generate calls end and the lock is granted, every /inference
\* request that has arrived eventually gets its response.  (A request never
\* goes back to idle and an answered one stays answered, so "every arrived
\* request is eventually answered" is: again and again, no arrived request is
\* unanswered.)
C18_LockAlwaysReleased ==
    /\ []((\A r \in Requests : ~InCritical(r)) => lock = 0)
    /\ [](\A r \in Requests :
            /\ pc[r] = "returning" => lock = r
            /\ pc[r] = "done" => lock # r)
    /\ []<>(\A r \in Requests : pc[r] \in {"idle", "done"})

\* a request has been answered, the lock is free again and a blocked request
\* is about to take it
C18_Witness ==
    /\ lock = 0
    /\ \E r \in Requests : pc[r] = "done"
    /\ waiters # <<>>

====
